---- MODULE Spec2Model ----
(***************************************************************************)
(* Model of dev_journal.py: the SQLite entry store (table `entries`, the   *)
(* external-content FTS5 table `entries_fts` and its three triggers) and   *)
(* the commands that read it.                                              *)
(*                                                                         *)
(* Text is a sequence of one-character strings, so that json.dumps,        *)
(* json.loads and the FTS5 tokenizer are computed character by character.  *)
(* A date string "YYYY-MM-DD" is the tuple <<y, m, d>>: the text is        *)
(* zero-padded and of fixed width, so SQLite's text comparison is the      *)
(* lexicographic comparison of the tuple; date.fromisoformat and date      *)
(* subtraction go through the proleptic Gregorian ordinal, as in Python.   *)
(***************************************************************************)
EXTENDS Bags, FiniteSets, Integers, Sequences, TLC

VARIABLES schema, entries, sqlite_sequence, entries_fts, today, out

vars == <<schema, entries, sqlite_sequence, entries_fts, today, out>>

\* ------------------------------------------------------------------ bounds
MaxEntries == 3

MaxListLen == 2

MaxListEntries == 2

\* ------------------------------------------------------------ program data
MOODS == {"great", "good", "ok", "rough"}

SearchLimit == 20

\* ------------------------------------------------------------------- text
Lower(c) == CASE c = "A" -> "a" [] c = "B" -> "b" [] c = "N" -> "n"
              [] c = "D" -> "d" [] c = "O" -> "o" [] c = "R" -> "r"
              [] c = "T" -> "t" [] c = "E" -> "e" [] OTHER -> c

AlnumChars == {"a", "b", "c", "d", "e", "i", "n", "o", "p", "r", "t", "u", "y",
               "A", "B", "D", "E", "N", "O", "R", "T", "0", "9"}

IsAlnum(c) == c \in AlnumChars

RECURSIVE TokenizeFrom(_, _, _, _)
\* unicode61: the tokens are the maximal runs of alphanumerics, case-folded.
TokenizeFrom(t, i, cur, acc) ==
  IF i > Len(t)
    THEN (IF cur = <<>> THEN acc ELSE Append(acc, cur))
    ELSE IF IsAlnum(t[i])
      THEN TokenizeFrom(t, i + 1, Append(cur, Lower(t[i])), acc)
      ELSE TokenizeFrom(t, i + 1, <<>>,
                        IF cur = <<>> THEN acc ELSE Append(acc, cur))

Tokenize(t) == TokenizeFrom(t, 1, <<>>, <<>>)

TokenSet(t) == {Tokenize(t)[i] : i \in 1..Len(Tokenize(t))}

\* ------------------------------------------------------------------- JSON
EscapeChar(c) ==
  CASE c = "\"" -> <<"\\", "\"">>
    [] c = "\\" -> <<"\\", "\\">>
    [] c = "é"  -> <<"\\", "u", "0", "0", "e", "9">>
    [] OTHER    -> <<c>>

RECURSIVE EscapeFrom(_, _)
EscapeFrom(s, i) ==
  IF i > Len(s) THEN <<>> ELSE EscapeChar(s[i]) \o EscapeFrom(s, i + 1)

DumpsStr(s) == <<"\"">> \o EscapeFrom(s, 1) \o <<"\"">>

RECURSIVE DumpsItems(_, _)
DumpsItems(l, i) ==
  IF i > Len(l) THEN <<>>
  ELSE (IF i = 1 THEN <<>> ELSE <<",", " ">>) \o DumpsStr(l[i]) \o DumpsItems(l, i + 1)

RECURSIVE Dedup(_, _)
Dedup(l, i) ==
  IF i > Len(l) THEN <<>>
  ELSE (IF \E j \in 1..(i - 1) : l[j] = l[i] THEN <<>> ELSE <<l[i]>>)
         \o Dedup(l, i + 1)

\* the list written without its repeated elements
json_dumps_dedup(l) == <<"[">> \o DumpsItems(Dedup(l, 1), 1) \o <<"]">>

\* json.dumps of a list of str (ensure_ascii, separators ", ").
json_dumps(l) == <<"[">> \o DumpsItems(l, 1) \o <<"]">>

UnescapeU(h) == IF h = <<"0", "0", "e", "9">> THEN "é" ELSE "?"

RECURSIVE LoadsStr(_, _, _)
\* i is the position after the opening quote; the result is the string and
\* the position after the closing quote.
LoadsStr(t, i, acc) ==
  IF t[i] = "\"" THEN [val |-> acc, next |-> i + 1]
  ELSE IF t[i] = "\\"
    THEN (IF t[i + 1] = "u"
            THEN LoadsStr(t, i + 6, Append(acc, UnescapeU(SubSeq(t, i + 2, i + 5))))
            ELSE LoadsStr(t, i + 2, Append(acc, t[i + 1])))
    ELSE LoadsStr(t, i + 1, Append(acc, t[i]))

RECURSIVE LoadsItems(_, _, _)
LoadsItems(t, i, acc) ==
  IF t[i] = "]" THEN acc
  ELSE IF t[i] \in {",", " "} THEN LoadsItems(t, i + 1, acc)
  ELSE LET r == LoadsStr(t, i + 1, <<>>)
       IN  LoadsItems(t, r.next, Append(acc, r.val))

\* json.loads of the text of a JSON array of strings.
json_loads(t) == LoadsItems(t, 2, <<>>)

\* ------------------------------------------------------------------ dates
IsLeap(y) == (y % 4 = 0) /\ ((y % 100 # 0) \/ (y % 400 = 0))

DaysInMonth(y, m) ==
  IF m = 2 THEN (IF IsLeap(y) THEN 29 ELSE 28)
  ELSE IF m \in {4, 6, 9, 11} THEN 30 ELSE 31

RECURSIVE DaysBeforeMonth(_, _)
DaysBeforeMonth(y, m) ==
  IF m = 1 THEN 0 ELSE DaysBeforeMonth(y, m - 1) + DaysInMonth(y, m - 1)

DaysBeforeYear(y) ==
  (y - 1) * 365 + ((y - 1) \div 4) - ((y - 1) \div 100) + ((y - 1) \div 400)

\* date.fromisoformat(s).toordinal()
toordinal(d) == DaysBeforeYear(d[1]) + DaysBeforeMonth(d[1], d[2]) + d[3]

\* (a - b).days
DaysBetween(a, b) == toordinal(a) - toordinal(b)

\* date.weekday(): Monday is 0.
weekday(d) == (toordinal(d) + 6) % 7

\* d - timedelta(days=1), by the calendar
PrevDay(d) ==
  IF d[3] > 1 THEN <<d[1], d[2], d[3] - 1>>
  ELSE IF d[2] > 1 THEN <<d[1], d[2] - 1, DaysInMonth(d[1], d[2] - 1)>>
  ELSE <<d[1] - 1, 12, 31>>

RECURSIVE MinusDays(_, _)
\* d - timedelta(days=n)
MinusDays(d, n) == IF n = 0 THEN d ELSE MinusDays(PrevDay(d), n - 1)

\* text comparison of two ISO date strings
DateLE(a, b) ==
  \/ a[1] < b[1]
  \/ a[1] = b[1] /\ a[2] < b[2]
  \/ a[1] = b[1] /\ a[2] = b[2] /\ a[3] <= b[3]

DateLT(a, b) == DateLE(a, b) /\ a # b

\* ------------------------------------------------------------------ store
AllObjects == {"entries", "entries_fts", "entries_ai", "entries_ad", "entries_au"}

\* conn.executescript(...): every statement is CREATE ... IF NOT EXISTS.
executescript(sch) == sch \cup AllObjects

\* the document the index holds for a row of `entries`
Doc(row) == [rowid |-> row.id, title |-> row.title, body |-> row.body,
             tags_json |-> row.tags_json]

\* an index over the title alone
fts_insert_title_only(fts, row) ==
  fts (+) SetToBag({[Doc(row) EXCEPT !.body = <<>>, !.tags_json = <<>>]})

\* INSERT INTO entries_fts(rowid, title, body, tags_json) VALUES (...)
fts_insert(fts, row) == fts (+) SetToBag({Doc(row)})

\* INSERT INTO entries_fts(entries_fts, rowid, ...) VALUES ('delete', ...)
fts_delete(fts, row) == fts (-) SetToBag({Doc(row)})

\* trigger AFTER INSERT ON entries
entries_ai(sch, fts, new) ==
  IF "entries_ai" \in sch THEN fts_insert(fts, new) ELSE fts

\* trigger AFTER DELETE ON entries
entries_ad(sch, fts, old) ==
  IF "entries_ad" \in sch THEN fts_delete(fts, old) ELSE fts

entries_au_keep_old(sch, fts, old, new) ==
  IF "entries_au" \in sch THEN fts_insert(fts, new) ELSE fts

\* trigger AFTER UPDATE ON entries
entries_au(sch, fts, old, new) ==
  IF "entries_au" \in sch THEN fts_insert(fts_delete(fts, old), new) ELSE fts

\* the row INSERT INTO entries writes for the arguments of insert_entry;
\* now is datetime.now(), a clock that the model reads as the number of
\* the write
NewRow(id, a, now) ==
  [id |-> id, date |-> a.date, title |-> a.title, body |-> a.body,
   tags_json |-> json_dumps(a.tags), mood |-> a.mood,
   focus_hours |-> a.focus_hours,
   accomplishments |-> json_dumps(a.accomplishments),
   blockers |-> json_dumps(a.blockers),
   tomorrow |-> json_dumps(a.tomorrow),
   created_at |-> now]

row_to_entry(row) ==
  [id |-> row.id, date |-> row.date, title |-> row.title, body |-> row.body,
   tags |-> json_loads(row.tags_json), mood |-> row.mood,
   focus_hours |-> row.focus_hours,
   accomplishments |-> json_loads(row.accomplishments),
   blockers |-> json_loads(row.blockers),
   tomorrow |-> json_loads(row.tomorrow),
   created_at |-> row.created_at]

\* INTEGER PRIMARY KEY AUTOINCREMENT: one more than the largest id ever used.
NextId == sqlite_sequence + 1

\* the INSERT of insert_entry with its trigger, and the commit
InsertRow(sch, a) ==
  LET row == NewRow(NextId, a, NextId)
  IN  /\ entries' = entries @@ (NextId :> row)
      /\ sqlite_sequence' = NextId
      /\ entries_fts' = entries_ai(sch, entries_fts, row)

\* a destructive initialisation: DROP TABLE, then CREATE TABLE
get_db_recreate ==
  /\ schema' = AllObjects
  /\ entries' = <<>>
  /\ entries_fts' = EmptyBag
  /\ out' = [cmd |-> "get_db"]
  /\ UNCHANGED <<sqlite_sequence, today>>

get_db ==
  /\ schema' = executescript(schema)
  /\ out' = [cmd |-> "get_db"]
  /\ UNCHANGED <<entries, sqlite_sequence, entries_fts, today>>

insert_entry(a) ==
  /\ "entries" \in schema
  /\ sqlite_sequence < MaxEntries
  /\ InsertRow(schema, a)
  /\ out' = [cmd |-> "insert_entry", lastrowid |-> NextId, args |-> a]
  /\ UNCHANGED <<schema, today>>

\* UPDATE entries SET title = ?, tags_json = ? WHERE id = ?
update_entries(id, title, tags) ==
  /\ "entries" \in schema
  /\ id \in DOMAIN entries
  /\ LET old == entries[id]
         new == [old EXCEPT !.title = title, !.tags_json = json_dumps(tags)]
     IN  /\ entries' = [entries EXCEPT ![id] = new]
         /\ entries_fts' = entries_au(schema, entries_fts, old, new)
  /\ out' = [cmd |-> "update", id |-> id]
  /\ UNCHANGED <<schema, sqlite_sequence, today>>

\* DELETE FROM entries WHERE id = ?
delete_entries(id) ==
  /\ "entries" \in schema
  /\ id \in DOMAIN entries
  /\ entries' = [i \in DOMAIN entries \ {id} |-> entries[i]]
  /\ entries_fts' = entries_ad(schema, entries_fts, entries[id])
  /\ out' = [cmd |-> "delete", id |-> id]
  /\ UNCHANGED <<schema, sqlite_sequence, today>>

\* --------------------------------------------------- command-line parsing
RECURSIVE SplitFrom(_, _, _, _)
SplitFrom(t, sep, i, acc) ==
  IF i > Len(t) THEN acc
  ELSE IF t[i] = sep THEN SplitFrom(t, sep, i + 1, Append(acc, <<>>))
  ELSE SplitFrom(t, sep, i + 1,
                 [acc EXCEPT ![Len(acc)] = Append(acc[Len(acc)], t[i])])

\* str.split(sep)
split(t, sep) == SplitFrom(t, sep, 1, << <<>> >>)

RECURSIVE lstrip(_, _)
lstrip(s, chars) ==
  IF s # <<>> /\ Head(s) \in chars THEN lstrip(Tail(s), chars) ELSE s

RECURSIVE rstrip(_, _)
rstrip(s, chars) ==
  IF s # <<>> /\ s[Len(s)] \in chars
    THEN rstrip(SubSeq(s, 1, Len(s) - 1), chars) ELSE s

\* str.strip()
strip(s) == rstrip(lstrip(s, {" "}), {" "})

\* [t.strip().lstrip("#") for t in args.tags.split(",")] if args.tags else []
ParseTags(t) ==
  IF t = <<>> THEN <<>>
  ELSE [i \in 1..Len(split(t, ",")) |-> lstrip(strip(split(t, ",")[i]), {"#"})]

\* [a.strip() for a in text.split("|")] if text else []
ParsePiped(t) ==
  IF t = <<>> THEN <<>>
  ELSE [i \in 1..Len(split(t, "|")) |-> strip(split(t, "|")[i])]

\* --------------------------------------------------------------- commands
cmd_add(args) ==
  LET a == [date |-> today, title |-> args.title, body |-> args.body,
            tags |-> ParseTags(args.tags), mood |-> args.mood,
            focus_hours |-> args.hours,
            accomplishments |-> ParsePiped(args.accomplishments),
            blockers |-> ParsePiped(args.blockers),
            tomorrow |-> ParsePiped(args.tomorrow)]
  IN  /\ schema' = executescript(schema)
      /\ IF args.mood \notin MOODS
           THEN /\ out' = [cmd |-> "add", kind |-> "exit", code |-> 1]
                /\ UNCHANGED <<entries, sqlite_sequence, entries_fts>>
           ELSE /\ sqlite_sequence < MaxEntries
                /\ InsertRow(executescript(schema), a)
                /\ out' = [cmd |-> "add", kind |-> "ok", id |-> NextId, args |-> a]
      /\ UNCHANGED today

\* SELECT * FROM entries WHERE id = ?
SelectById(id) == IF id \in DOMAIN entries THEN <<entries[id]>> ELSE <<>>

cmd_show(id) ==
  /\ schema' = executescript(schema)
  /\ out' = IF SelectById(id) = <<>>
              THEN [cmd |-> "show", id |-> id, kind |-> "not_found"]
              ELSE [cmd |-> "show", id |-> id, kind |-> "entry",
                    entry |-> row_to_entry(SelectById(id)[1])]
  /\ UNCHANGED <<entries, sqlite_sequence, entries_fts, today>>

\* ------------------------------------------------------------ environment
FirstDay == <<2024, 2, 29>>

MaxDays == 1

NextDay(d) ==
  IF d[3] < DaysInMonth(d[1], d[2]) THEN <<d[1], d[2], d[3] + 1>>
  ELSE IF d[2] < 12 THEN <<d[1], d[2] + 1, 1>>
  ELSE <<d[1] + 1, 1, 1>>

\* the calendar day changes between two runs of the program
midnight ==
  /\ DaysBetween(today, FirstDay) < MaxDays
  /\ today' = NextDay(today)
  /\ UNCHANGED <<schema, entries, sqlite_sequence, entries_fts, out>>

Init ==
  /\ schema = {}
  /\ entries = <<>>
  /\ sqlite_sequence = 0
  /\ entries_fts = EmptyBag
  /\ today = FirstDay
  /\ out = [cmd |-> "none"]

\* ------------------------------------------------------------- the inputs
s_py == <<"p", "y">>

s_api == <<"a", "p", "i">>

s_odd == <<"a", "\"", ",", " ", "\\", "é">>

t_ab == <<"a", "b">>

t_a_b == <<"a", " ", "b">>

t_body == <<"b", "o", "d", "y">>

t_note == <<"n", "o", "t", "e">>

ListsOver(S) == UNION {[1..n -> S] : n \in 0..MaxListLen}

Base == [date |-> FirstDay, title |-> t_ab, body |-> t_body, tags |-> <<>>,
         mood |-> "ok", focus_hours |-> 4, accomplishments |-> <<>>,
         blockers |-> <<>>, tomorrow |-> <<>>]

Full == [date |-> <<2024, 2, 28>>, title |-> t_a_b, body |-> t_note,
         tags |-> <<s_api, s_py>>, mood |-> "great", focus_hours |-> 5,
         accomplishments |-> <<s_py, s_odd>>, blockers |-> <<s_odd, s_py>>,
         tomorrow |-> <<s_odd, s_odd>>]

StoreInputs == {Base, [Base EXCEPT !.mood = "bad"], Full}

AddInputs ==
  {[title |-> t_ab, body |-> <<>>, tags |-> tg, mood |-> m, hours |-> 0,
    accomplishments |-> <<"a", " ", "|", " ", "b", " ">>, blockers |-> <<>>,
    tomorrow |-> <<>>] :
      tg \in {<<>>, <<"#", "p", "y", ",", " ", "a", "p", "i">>},
      m \in {"good", "bad"}}

Ids == 1..MaxEntries

Insert == \E a \in StoreInputs : insert_entry(a)

Add == \E args \in AddInputs : cmd_add(args)

Update == \E id \in Ids : update_entries(id, t_note, <<s_py>>)

Delete == \E id \in Ids : delete_entries(id)

Next == get_db \/ Insert \/ Add \/ Update \/ Delete

Spec == Init /\ [][Next]_vars

\* C1: the index holds exactly one document per live entry, keyed by the
\* entry's id and built from its current title, body and serialized tags;
\* no live entry is missing, no document is stale, none is there twice.
IndexInSync ==
  /\ \A id \in DOMAIN entries : CopiesIn(Doc(entries[id]), entries_fts) = 1
  /\ \A d \in BagToSet(entries_fts) :
       /\ d.rowid \in DOMAIN entries
       /\ d = Doc(entries[d.rowid])
       /\ d.tags_json = json_dumps(row_to_entry(entries[d.rowid]).tags)

\* an edited entry and a deleted entry, with an entry still live
IndexInSyncWitness ==
  /\ out.cmd = "delete"
  /\ \E id \in DOMAIN entries : entries[id].title = t_note
  /\ Cardinality(DOMAIN entries) = 2

\* C2: insert_entry persists no row whose mood is outside MOODS, so every
\* persisted entry has its mood in MOODS.
InsertRejectsInvalidMood ==
  /\ \A id \in DOMAIN entries : entries[id].mood \in MOODS
  /\ (out.cmd = "insert_entry" /\ out.args.mood \notin MOODS)
       => out.lastrowid \notin DOMAIN entries

\* C5: get_db on a store that exists leaves the schema, the entries, the
\* id counter and the index as they are, so every query answers as before.
GetDbIdempotent ==
  [][(out'.cmd = "get_db" /\ schema # {})
       => /\ schema' = schema
          /\ entries' = entries
          /\ sqlite_sequence' = sqlite_sequence
          /\ entries_fts' = entries_fts
          /\ \A id \in Ids : SelectById(id)' = SelectById(id)]_vars

\* get_db has run again on a store that holds entries
GetDbIdempotentWitness ==
  /\ out.cmd = "get_db"
  /\ Cardinality(DOMAIN entries) = 2
  /\ BagCardinality(entries_fts) = 2

\* ---------------------------------------------- insert, then get by id
RoundTripInputs ==
  {[Base EXCEPT !.tags = l] : l \in ListsOver({s_py, s_odd})}
    \cup {[Base EXCEPT !.mood = "bad"], Full}

InsertRT ==
  /\ sqlite_sequence < MaxListEntries
  /\ \E a \in RoundTripInputs : insert_entry(a)

Show == \E id \in 1..MaxListEntries : cmd_show(id)

NextRoundTrip == get_db \/ InsertRT \/ Show

SpecRoundTrip == Init /\ [][NextRoundTrip]_vars

SameFields(e, a) ==
  /\ e.date = a.date
  /\ e.title = a.title
  /\ e.body = a.body
  /\ e.mood = a.mood
  /\ e.focus_hours = a.focus_hours
  /\ e.tags = a.tags
  /\ e.accomplishments = a.accomplishments
  /\ e.blockers = a.blockers
  /\ e.tomorrow = a.tomorrow

\* C3: right after an insert, get-by-id with the returned id yields an
\* entry whose scalar fields equal the inputs and whose four lists equal
\* the inputs as sequences (same elements, same order, duplicates kept).
InsertThenGet ==
  [][(out.cmd = "insert_entry" /\ out'.cmd = "show" /\ out'.id = out.lastrowid)
       => /\ out'.kind = "entry"
          /\ out'.entry.id = out.lastrowid
          /\ SameFields(out'.entry, out.args)]_vars

\* the second entry, with repeated and escaped list elements, was read back
InsertThenGetWitness ==
  /\ out.cmd = "show"
  /\ out.kind = "entry"
  /\ out.id = 2
  /\ out.entry.tomorrow = <<s_odd, s_odd>>
  /\ out.entry.blockers = <<s_odd, s_py>>
  /\ out.entry.tags = <<s_api, s_py>>

\* ------------------------------------------------------ full-text search
K_AND == <<"A", "N", "D">>

K_OR == <<"O", "R">>

K_NOT == <<"N", "O", "T">>

Op(w) == [k |-> "op", w |-> w]

Term(w) == [k |-> "term", w |-> w]

\* the position of the quote that closes the string opened at i, or 0
ClosingQuote(q, i) ==
  IF \E j \in (i + 1)..Len(q) : q[j] = "\""
    THEN CHOOSE j \in (i + 1)..Len(q) :
           q[j] = "\"" /\ \A k \in (i + 1)..(j - 1) : q[k] # "\""
    ELSE 0

\* the last position of the bareword that starts at i
BarewordEnd(q, i) ==
  CHOOSE j \in i..Len(q) :
    /\ \A k \in i..j : IsAlnum(q[k])
    /\ j = Len(q) \/ ~IsAlnum(q[j + 1])

RECURSIVE LexFrom(_, _, _)
\* the FTS5 query lexer: quoted strings, barewords, the keywords AND OR NOT
LexFrom(q, i, acc) ==
  IF i > Len(q) THEN [ok |-> TRUE, toks |-> acc]
  ELSE IF q[i] = " " THEN LexFrom(q, i + 1, acc)
  ELSE IF q[i] = "\""
    THEN (IF ClosingQuote(q, i) = 0
            THEN [ok |-> FALSE, toks |-> <<>>]
            ELSE LexFrom(q, ClosingQuote(q, i) + 1,
                         Append(acc, Term(SubSeq(q, i + 1, ClosingQuote(q, i) - 1)))))
  ELSE IF IsAlnum(q[i])
    THEN LET w == SubSeq(q, i, BarewordEnd(q, i))
         IN  LexFrom(q, BarewordEnd(q, i) + 1,
                     Append(acc, IF w \in {K_AND, K_OR, K_NOT} THEN Op(w) ELSE Term(w)))
  ELSE [ok |-> FALSE, toks |-> <<>>]

Lex(q) == LexFrom(q, 1, <<>>)

Segments(toks, op) == split(toks, Op(op))

\* the FTS5 query grammar: OR of AND of NOT of juxtaposed phrases, every
\* operand present
Parses(toks) ==
  \A o \in 1..Len(Segments(toks, K_OR)) :
    \A a \in 1..Len(Segments(Segments(toks, K_OR)[o], K_AND)) :
      \A n \in 1..Len(Segments(Segments(Segments(toks, K_OR)[o], K_AND)[a], K_NOT)) :
        Segments(Segments(Segments(toks, K_OR)[o], K_AND)[a], K_NOT)[n] # <<>>

\* the query is one the index accepts
QueryOK(q) == Lex(q).ok /\ Lex(q).toks # <<>> /\ Parses(Lex(q).toks)

\* the phrase occurs, token after token, in one of the document's columns
PhraseMatch(ph, doc) ==
  /\ ph # <<>>
  /\ \E col \in {doc.title, doc.body, doc.tags_json} :
       \E i \in 1..(Len(Tokenize(col)) - Len(ph) + 1) :
         SubSeq(Tokenize(col), i, i + Len(ph) - 1) = ph

AllMatch(terms, doc) ==
  \A i \in 1..Len(terms) : PhraseMatch(Tokenize(terms[i].w), doc)

NotMatch(segs, doc) ==
  /\ AllMatch(segs[1], doc)
  /\ \A k \in 2..Len(segs) : ~AllMatch(segs[k], doc)

\* entries_fts MATCH ?
MATCH(toks, doc) ==
  LET ors == Segments(toks, K_OR)
  IN  \E o \in 1..Len(ors) :
        LET ands == Segments(ors[o], K_AND)
        IN  \A a \in 1..Len(ands) : NotMatch(Segments(ands[a], K_NOT), doc)

\* the orders in which ORDER BY date [DESC] may return the rows S of
\* entries: sorted by the date text, rows of one date in either order
OrderByDate(S, desc) ==
  {r \in [1..Cardinality(S) -> S] :
     \A i, j \in 1..Cardinality(S) :
       i < j => /\ r[i] # r[j]
                /\ IF desc THEN DateLE(entries[r[j]].date, entries[r[i]].date)
                           ELSE DateLE(entries[r[i]].date, entries[r[j]].date)}

\* LIMIT n
Limit(r, n) == SubSeq(r, 1, IF Len(r) < n THEN Len(r) ELSE n)

\* FROM entries e JOIN entries_fts f ON e.id = f.rowid WHERE entries_fts MATCH ?
SearchRows(q) ==
  LET toks == Lex(q).toks
  IN  {id \in DOMAIN entries :
         \E d \in BagToSet(entries_fts) : d.rowid = id /\ MATCH(toks, d)}

cmd_search(q) ==
  /\ schema' = executescript(schema)
  /\ IF ~QueryOK(q)
       THEN out' = [cmd |-> "search", query |-> q, kind |-> "crash",
                    exception |-> "sqlite3.OperationalError"]
       ELSE \E r \in OrderByDate(SearchRows(q), TRUE) :
              out' = [cmd |-> "search", query |-> q,
                      kind |-> IF r = <<>> THEN "no_results" ELSE "results",
                      ids |-> Limit(r, SearchLimit)]
  /\ UNCHANGED <<entries, sqlite_sequence, entries_fts, today>>

t_B_AND == <<"B", " ", "A", "N", "D">>

s_e == <<"é">>

SearchInputs ==
  {Base,
   [Base EXCEPT !.date = <<2024, 2, 28>>, !.title = t_a_b, !.body = t_note,
                !.tags = <<s_api, s_py>>],
   [Base EXCEPT !.date = <<2024, 2, 28>>, !.title = t_B_AND, !.body = <<>>,
                !.tags = <<s_e>>]}

Queries ==
  {<<"a">>, t_ab, <<"c">>, <<"N", "O", "T", "E">>, <<"u", "0", "0", "e", "9">>,
   K_AND, <<"a", "n", "d">>, <<"a", " ", "A", "N", "D", " ", "b">>,
   <<"a", " ", "O", "R", " ", "c">>, <<"a", " ", "N", "O", "T", " ", "b">>,
   t_a_b, <<"\"", "a", " ", "b", "\"">>, <<"\"", "a">>,
   <<"N", "O", "T", " ", "a">>}

InsertSearchable == \E a \in SearchInputs : insert_entry(a)

Search == \E q \in Queries : cmd_search(q)

NextSearch == get_db \/ InsertSearchable \/ Search

SpecSearch == Init /\ [][NextSearch]_vars

\* t occurs in s as a run of consecutive characters
IsSubstring(t, s) ==
  \E i \in 1..(Len(s) - Len(t) + 1) : SubSeq(s, i, i + Len(t) - 1) = t

InTitleOrBody(t, id) ==
  IsSubstring(t, entries[id].title) \/ IsSubstring(t, entries[id].body)

InTags(t, id) ==
  \E i \in 1..Len(row_to_entry(entries[id]).tags) :
    IsSubstring(t, row_to_entry(entries[id]).tags[i])

Found(id) == out.kind = "results" /\ \E i \in 1..Len(out.ids) : out.ids[i] = id

\* the query is one word, and not one of the query language's keywords
OneWord(q) ==
  /\ q # <<>>
  /\ \A i \in 1..Len(q) : IsAlnum(q[i])
  /\ q \notin {K_AND, K_OR, K_NOT}

\* C4 as stated: a search for a substring (here, a run of letters and digits)
\* that only one entry's title or body contains returns that entry, and a
\* search for a token that occurs in no entry's title, body or tags returns
\* nothing.
SearchFindsSubstring ==
  (out.cmd = "search" /\ OneWord(out.query)) =>
    /\ \A id \in DOMAIN entries :
         (/\ InTitleOrBody(out.query, id)
          /\ \A o \in DOMAIN entries \ {id} : ~InTitleOrBody(out.query, o))
           => Found(id)
    /\ (\A id \in DOMAIN entries :
          ~InTitleOrBody(out.query, id) /\ ~InTags(out.query, id))
         => out.kind = "no_results"

\* the words the index holds for an entry: those of its title, its body and
\* its serialized tag list, as the tokenizer cuts and folds them
TitleBodyWords(id) == TokenSet(entries[id].title) \cup TokenSet(entries[id].body)

IndexedWords(id) == TitleBodyWords(id) \cup TokenSet(entries[id].tags_json)

\* C4, amended: a search for one word returns the entry when the word is,
\* as the index tokenizes, a whole word of its title or body and of no other
\* entry; it returns nothing when the word is a word of no entry's title,
\* body or serialized tag list.
SearchFindsWord ==
  (out.cmd = "search" /\ OneWord(out.query)) =>
    /\ \A id \in DOMAIN entries :
         (/\ Tokenize(out.query)[1] \in TitleBodyWords(id)
          /\ \A o \in DOMAIN entries \ {id} :
               Tokenize(out.query)[1] \notin IndexedWords(o))
           => Found(id)
    /\ (\A id \in DOMAIN entries : Tokenize(out.query)[1] \notin IndexedWords(id))
         => out.kind = "no_results"

\* a word of one entry's body, typed in another case, found that entry
\* among three
SearchFindsWordWitness ==
  /\ out.cmd = "search"
  /\ out.query = <<"N", "O", "T", "E">>
  /\ Cardinality(DOMAIN entries) = 3
  /\ out.kind = "results"
  /\ Len(out.ids) = 1
  /\ entries[out.ids[1]].body = t_note

\* C8: a query the index rejects ends the search in a reported "malformed
\* query" error, not in an unhandled exception.
MalformedQueryReported ==
  (out.cmd = "search" /\ ~QueryOK(out.query)) => out.kind = "malformed_query"

\* ------------------------------------------------------------------ streak
\* SELECT DISTINCT date FROM entries ORDER BY date DESC
DistinctDatesDesc ==
  LET D == {entries[id].date : id \in DOMAIN entries}
  IN  CHOOSE r \in [1..Cardinality(D) -> D] :
        \A i, j \in 1..Cardinality(D) : i < j => DateLT(r[j], r[i])

RECURSIVE StreakLoopNoBreak(_, _, _)
\* the loop without its break: every pair of consecutive days counts
StreakLoopNoBreak(dates, i, streak) ==
  IF i > Len(dates) - 1 THEN streak
  ELSE StreakLoopNoBreak(dates, i + 1,
         IF DaysBetween(dates[i], dates[i + 1]) = 1 THEN streak + 1 ELSE streak)

RECURSIVE StreakLoop(_, _, _)
\* for i in range(len(dates)-1): streak += 1 while the next date is one day
\* before, else break
StreakLoop(dates, i, streak) ==
  IF i > Len(dates) - 1 THEN streak
  ELSE IF DaysBetween(dates[i], dates[i + 1]) = 1
    THEN StreakLoop(dates, i + 1, streak + 1)
    ELSE streak

cmd_streak ==
  /\ schema' = executescript(schema)
  /\ out' = IF DistinctDatesDesc = <<>>
              THEN [cmd |-> "streak", kind |-> "no_entries"]
              ELSE [cmd |-> "streak", kind |-> "ok",
                    streak |-> StreakLoop(DistinctDatesDesc, 1, 1),
                    total |-> Len(DistinctDatesDesc)]
  /\ UNCHANGED <<entries, sqlite_sequence, entries_fts, today>>

\* ----------------------------------------------------------- weekly summary
RECURSIVE SumHours(_, _)
\* sum(r["focus_hours"] for r in rows)
SumHours(rows, i) ==
  IF i > Len(rows) THEN 0 ELSE entries[rows[i]].focus_hours + SumHours(rows, i + 1)

RECURSIVE Flatten(_, _)
\* all_accoms.extend(json.loads(r["accomplishments"])) for r in rows
Flatten(rows, i) ==
  IF i > Len(rows) THEN <<>>
  ELSE json_loads(entries[rows[i]].accomplishments) \o Flatten(rows, i + 1)

\* today - timedelta(days=today.weekday())
StartOfWeek(d) == MinusDays(d, weekday(d))

\* SELECT * FROM entries WHERE date >= ? ORDER BY date
WeeklyRows(start) ==
  OrderByDate({id \in DOMAIN entries : DateLE(start, entries[id].date)}, FALSE)

cmd_weekly ==
  /\ schema' = executescript(schema)
  /\ \E rows \in WeeklyRows(StartOfWeek(today)) :
       out' = [cmd |-> "weekly", start |-> StartOfWeek(today), today |-> today,
               entries |-> Len(rows), focus_hrs |-> SumHours(rows, 1),
               accomplishments |-> Flatten(rows, 1), rows |-> rows]
  /\ UNCHANGED <<entries, sqlite_sequence, entries_fts, today>>

\* ------------------------------------------------------------------ export
DefaultStart == <<2020, 1, 1>>

\* date BETWEEN ? AND ?, the end left out
BetweenExclusive(d, start, end) == DateLE(start, d) /\ DateLT(d, end)

\* date BETWEEN ? AND ?
Between(d, start, end) == DateLE(start, d) /\ DateLE(d, end)

\* SELECT * FROM entries WHERE date BETWEEN ? AND ? ORDER BY date
RangeRows(start, end) ==
  OrderByDate({id \in DOMAIN entries : Between(entries[id].date, start, end)}, FALSE)

\* args.start and args.end are <<>> when the option is not given
cmd_export_md(args) ==
  LET start == IF args.start = <<>> THEN DefaultStart ELSE args.start
      end   == IF args.end = <<>> THEN today ELSE args.end
  IN  /\ schema' = executescript(schema)
      /\ \E rows \in RangeRows(start, end) :
           out' = IF rows = <<>>
                    THEN [cmd |-> "export", start |-> start, end |-> end,
                          kind |-> "no_entries"]
                    ELSE [cmd |-> "export", start |-> start, end |-> end,
                          kind |-> "exported", rows |-> rows]
      /\ UNCHANGED <<entries, sqlite_sequence, entries_fts, today>>

\* --------------------------------------------------------------- tag cloud
RECURSIVE CountTagsOnce(_, _, _)
\* each tag counted once per entry
CountTagsOnce(tags, i, freq) ==
  IF i > Len(tags) THEN freq
  ELSE CountTagsOnce(tags, i + 1,
         IF \E j \in 1..(i - 1) : tags[j] = tags[i] THEN freq
         ELSE IF tags[i] \in DOMAIN freq
           THEN [freq EXCEPT ![tags[i]] = @ + 1]
           ELSE freq @@ (tags[i] :> 1))

RECURSIVE CountTags(_, _, _)
\* for tag in json.loads(row["tags_json"]): freq[tag] = freq.get(tag, 0) + 1
CountTags(tags, i, freq) ==
  IF i > Len(tags) THEN freq
  ELSE CountTags(tags, i + 1,
         IF tags[i] \in DOMAIN freq
           THEN [freq EXCEPT ![tags[i]] = @ + 1]
           ELSE freq @@ (tags[i] :> 1))

RECURSIVE TagFreq(_, _)
\* for row in rows, the rows of SELECT tags_json FROM entries taken by id
TagFreq(id, freq) ==
  IF id > sqlite_sequence THEN freq
  ELSE TagFreq(id + 1,
         IF id \in DOMAIN entries
           THEN CountTags(json_loads(entries[id].tags_json), 1, freq)
           ELSE freq)

cmd_tag_cloud ==
  /\ schema' = executescript(schema)
  /\ out' = IF DOMAIN TagFreq(1, <<>>) = {}
              THEN [cmd |-> "tag_cloud", kind |-> "no_tags"]
              ELSE [cmd |-> "tag_cloud", kind |-> "cloud", freq |-> TagFreq(1, <<>>)]
  /\ UNCHANGED <<entries, sqlite_sequence, entries_fts, today>>

\* --------------------------------------------- streak, weekly and export
Dated(d, h, a) == [Base EXCEPT !.date = d, !.focus_hours = h, !.accomplishments = a]

StreakInputs ==
  {Dated(d, 4, <<>>) : d \in {<<2023, 12, 31>>, <<2024, 1, 1>>, <<2024, 2, 26>>,
                              <<2024, 2, 28>>, <<2024, 2, 29>>, <<2024, 3, 1>>}}

InsertStreak == \E a \in StreakInputs : insert_entry(a)

NextStreak == get_db \/ InsertStreak \/ midnight \/ cmd_streak

SpecStreak == Init /\ [][NextStreak]_vars

WeeklyInputs ==
  {Dated(<<2024, 2, 25>>, 4, <<s_odd>>), Dated(<<2024, 2, 26>>, 2, <<s_py>>),
   Dated(<<2024, 2, 28>>, 3, <<s_api, s_py>>), Dated(<<2024, 3, 2>>, 5, <<s_api>>)}

InsertWeekly == \E a \in WeeklyInputs : insert_entry(a)

NextWeekly == get_db \/ InsertWeekly \/ midnight \/ cmd_weekly

SpecWeekly == Init /\ [][NextWeekly]_vars

ExportInputs ==
  {Dated(d, 4, <<>>) : d \in {<<2024, 1, 1>>, <<2024, 1, 15>>, <<2024, 1, 31>>,
                              <<2024, 2, 1>>, <<2024, 2, 29>>}}

ExportArgs ==
  {[start |-> <<2024, 1, 1>>, end |-> <<2024, 1, 31>>],
   [start |-> <<>>, end |-> <<>>],
   [start |-> <<2024, 1, 31>>, end |-> <<2024, 1, 15>>],
   [start |-> <<2024, 1, 15>>, end |-> <<>>]}

InsertExport == \E a \in ExportInputs : insert_entry(a)

Export == \E args \in ExportArgs : cmd_export_md(args)

NextExport == get_db \/ InsertExport \/ midnight \/ Export

SpecExport == Init /\ [][NextExport]_vars

EntryDates == {entries[id].date : id \in DOMAIN entries}

\* the most recent of the entries' dates, by the calendar
Newest == CHOOSE d \in EntryDates : \A e \in EntryDates : toordinal(e) <= toordinal(d)

\* C6: with entries present, the streak is the number of days of the run of
\* consecutive calendar days that ends at the most recent date: each day of
\* the run has an entry, the day before the run has none; a day counts once
\* however many entries it has, and the most recent date need not be today.
StreakIsMaximalRun ==
  (out.cmd = "streak" /\ DOMAIN entries # {}) =>
    /\ out.kind = "ok"
    /\ out.streak >= 1
    /\ \A i \in 0..(out.streak - 1) : MinusDays(Newest, i) \in EntryDates
    /\ MinusDays(Newest, out.streak) \notin EntryDates
    /\ EntryDates = {today, MinusDays(today, 1), MinusDays(today, 2)} => out.streak = 3
    /\ EntryDates = {today, MinusDays(today, 2)} => out.streak = 1

\* three entries on today and the two days before it, over the leap day
StreakIsMaximalRunWitness ==
  /\ out.cmd = "streak"
  /\ today = <<2024, 3, 1>>
  /\ EntryDates = {<<2024, 3, 1>>, <<2024, 2, 29>>, <<2024, 2, 28>>}
  /\ out.streak = 3

RECURSIVE SumOver(_)
SumOver(S) ==
  IF S = {} THEN 0
  ELSE LET x == CHOOSE x \in S : TRUE
       IN  entries[x].focus_hours + SumOver(S \ {x})

RECURSIVE Concat(_, _)
Concat(rows, i) ==
  IF i > Len(rows) THEN <<>>
  ELSE row_to_entry(entries[rows[i]]).accomplishments \o Concat(rows, i + 1)

\* the entries dated from the Monday of today's week to today, both included
InWeek == {id \in DOMAIN entries :
             /\ toordinal(entries[id].date) >= toordinal(today) - weekday(today)
             /\ toordinal(entries[id].date) <= toordinal(today)}

\* C7: the weekly summary counts, sums and lists exactly the entries dated
\* in [Monday of today's week, today], the accomplishments in date order.
WeeklyCoversWindow ==
  out.cmd = "weekly" =>
    /\ weekday(out.start) = 0
    /\ out.entries = Cardinality(InWeek)
    /\ out.focus_hrs = SumOver(InWeek)
    /\ \E r \in OrderByDate(InWeek, FALSE) : out.accomplishments = Concat(r, 1)

\* C9: the export's range query returns exactly the entries dated from the
\* start to the end, both included, in ascending date order.
ExportRangeInclusive ==
  out.cmd = "export" =>
    LET R == {id \in DOMAIN entries :
                /\ toordinal(out.start) <= toordinal(entries[id].date)
                /\ toordinal(entries[id].date) <= toordinal(out.end)}
    IN  IF R = {} THEN out.kind = "no_entries"
        ELSE /\ out.kind = "exported"
             /\ Len(out.rows) = Cardinality(R)
             /\ {out.rows[i] : i \in 1..Len(out.rows)} = R
             /\ \A i, j \in 1..Len(out.rows) :
                  i < j => toordinal(entries[out.rows[i]].date)
                             <= toordinal(entries[out.rows[j]].date)

\* entries on 2024-01-01, 2024-01-15 and 2024-02-01, and the range
\* [2024-01-01, 2024-01-31] exported: the first two, in that order
ExportRangeInclusiveWitness ==
  /\ out.cmd = "export"
  /\ out.start = <<2024, 1, 1>>
  /\ out.end = <<2024, 1, 31>>
  /\ EntryDates = {<<2024, 1, 1>>, <<2024, 1, 15>>, <<2024, 2, 1>>}
  /\ Cardinality(DOMAIN entries) = 3
  /\ out.kind = "exported"
  /\ Len(out.rows) = 2
  /\ entries[out.rows[1]].date = <<2024, 1, 1>>
  /\ entries[out.rows[2]].date = <<2024, 1, 15>>

\* ---------------------------------------------------------- tag frequency
s_devops == <<"d", "e", "v">>

TagInputs ==
  {[Base EXCEPT !.tags = l] : l \in ListsOver({s_py, s_api}) \cup {<<s_py, s_devops>>}}

InsertTagged ==
  /\ sqlite_sequence < MaxListEntries
  /\ \E a \in TagInputs : insert_entry(a)

NextTags == get_db \/ InsertTagged \/ cmd_tag_cloud

SpecTags == Init /\ [][NextTags]_vars

TagsOf(id) == row_to_entry(entries[id]).tags

\* the places where the tag t stands in some entry's tag list
Occurrences(t) ==
  {p \in UNION {{<<id, i>> : i \in 1..Len(TagsOf(id))} : id \in DOMAIN entries} :
     TagsOf(p[1])[p[2]] = t}

\* C10: the frequency of a tag is the number of its occurrences in the tag
\* lists of all entries, a repeat inside one list counted each time; a tag
\* that occurs nowhere has no count.
TagFrequencyCounts ==
  out.cmd = "tag_cloud" =>
    \A t \in {s_py, s_api, s_devops, s_odd} :
      IF Occurrences(t) = {}
        THEN out.kind = "no_tags" \/ t \notin DOMAIN out.freq
        ELSE /\ out.kind = "cloud"
             /\ t \in DOMAIN out.freq
             /\ out.freq[t] = Cardinality(Occurrences(t))

\* entries tagged [py, api] and [py, dev]: py counts 2, api 1
TagFrequencyCountsWitness ==
  /\ out.cmd = "tag_cloud"
  /\ \E a, b \in DOMAIN entries :
       /\ TagsOf(a) = <<s_py, s_api>>
       /\ TagsOf(b) = <<s_py, s_devops>>
  /\ out.freq[s_py] = 2
  /\ out.freq[s_api] = 1
  /\ out.freq[s_devops] = 1

====
